---- MODULE Spec2Model ----
(***************************************************************************)
(* Layer stores of the 30DayMapChallenge map applications.                 *)
(*                                                                         *)
(* The repository holds three builds of the Pinia store "data":            *)
(*   "toggle"  : src/src/stores/dataStore.js:44-330, layers are switched   *)
(*               on and off with toggleLayerVisibility and loaded lazily;  *)
(*   "summary" : src/src/stores/dataStore.js:376-817, city layers loaded   *)
(*               by loadCityLayers, with length, angle and boundsCenter;   *)
(*   "recheck" : src/unnamed/part_000, city layers loaded by               *)
(*               loadCityLayers, which recomputes a missing boundsCenter.  *)
(* A behaviour runs one build, chosen in Init (variable variant).          *)
(*                                                                         *)
(* JavaScript runs every handler to completion; a handler gives up control *)
(* only at an await.  One action of the model is one such turn.            *)
(*                                                                         *)
(* GeoJSON coordinates are whole degrees, <<lng, lat>>.  Map positions     *)
(* (boundsCenter, the target of setView) are <<lat, lng>> in half degrees, *)
(* so that the centre of a bounding box, (min + max) / 2, is a whole       *)
(* number.                                                                 *)
(***************************************************************************)
EXTENDS Integers, Sequences, FiniteSets, TLC

VARIABLES
    variant,        \* which build of the store runs
    visible,        \* layer.visible                         (toggle)
    isLoading,      \* layer.isLoading                       (toggle)
    isLoaded,       \* layer.isLoaded                        (toggle)
    geoJsonData,    \* layer.geoJsonData
    tableData,      \* layer.tableData                       (toggle)
    summaryData,    \* layer.summaryData                     (toggle)
    legendData,     \* layer.legendData                      (toggle)
    flag,           \* isAnalysisLayer / isIsochroneAnalysisLayer of a layer
    length,         \* layer.length                          (summary)
    angle,          \* layer.angle                           (summary)
    boundsCenter,   \* layer.boundsCenter                    (summary, recheck)
    inflight,       \* loader promises not yet settled, per caller and layer
    pc,             \* position of each loadCityLayers run
    idx,            \* the layer a loadCityLayers run is at
    outcome,        \* how the latest loader call of a caller for a layer went
    mapPhase,       \* MapTab: initMap's progress
    attempts,       \* MapTab: initMap's attempts counter
    mapInstance,    \* dataStore.mapInstance is set
    navTimers,      \* navigateToCity retries waiting for their timeout
    homeThen,       \* HomeView: the .then callback of loadCityLayers
    last,           \* the turn that produced this state
    tick,           \* parity of the number of toggleLayerVisibility calls
    call,           \* the last call of a summarizer on its own: fn, arg, result
    layerGroups,    \* the map component: ids of the layers it put on the map
    selectedBasemap,  \* defineStore.selectedBasemap, by what setBasemap reads
    currentTileLayer, \* the map component: what currentTileLayer refers to
    tilesOnMap      \* tile layers attached to the Leaflet map

vars == <<variant, visible, isLoading, isLoaded, geoJsonData, tableData,
          summaryData, legendData, flag, length, angle, boundsCenter,
          inflight, outcome, pc, idx, mapPhase, attempts, mapInstance,
          navTimers, homeThen, last, tick,
          call, layerGroups, selectedBasemap, currentTileLayer, tilesOnMap>>

toggleVars == <<visible, isLoading, isLoaded, tableData, summaryData,
                legendData>>
cityVars == <<length, angle, boundsCenter>>
runVars == <<pc, idx>>
mapVars == <<mapPhase, attempts, mapInstance>>
tileVars == <<selectedBasemap, currentTileLayer, tilesOnMap>>
viewVars == <<layerGroups, selectedBasemap, currentTileLayer, tilesOnMap>>

----------------------------------------------------------------------------
(* Bounds *)

\* layers in the group (the stores configure six)
NumLayers == 2
\* navigateToCity retry timers that may wait at once, over all cities
MaxTimers == 1
\* vertices of a ring or line handed to a summarizer on its own
MaxRing == 3
\* features of a collection handed to a summarizer on its own
MaxFeatures == 2
\* hundreds of km a walk of rings may total when its label is formatted
MaxTotal == 20

(* Program constants *)
maxAttempts == 20

LayerIds == 1..NumLayers
\* an id that no layer carries
UnknownId == 0
Variants == {"toggle", "summary", "recheck"}
\* the callers of a loader: toggleLayerVisibility, and the two places that
\* start loadCityLayers
Runs == {"home", "maptab"}
Callers == {"toggle"} \cup Runs

----------------------------------------------------------------------------
(* Values *)

null == "null"
undefined == "undefined"
NullGeoJson == [type |-> "null", features |-> <<>>]
NullGeometry == [type |-> "null", coordinates |-> <<>>]
NullPoint == <<>>

IsNullGeoJson(g) == g.type = "null"

\* points are <<lng, lat>> in whole degrees, as GeoJSON orders them
Polygon(rings) == [geometry |-> [type |-> "Polygon", coordinates |-> rings]]
LineString(points) ==
    [geometry |-> [type |-> "LineString", coordinates |-> points]]
MultiPolygon(polygons) ==
    [geometry |-> [type |-> "MultiPolygon", coordinates |-> polygons]]
\* a geometry object without a type member
Untyped(points) == [geometry |-> [type |-> undefined, coordinates |-> points]]
NoGeometry == [geometry |-> NullGeometry]
FeatureCollection(fs) == [type |-> "FeatureCollection", features |-> fs]

gEmpty == FeatureCollection(<<>>)
gPolygon ==
    FeatureCollection(<<Polygon(<< << <<0, 0>>, <<0, 4>>, <<2, 4>>, <<0, 0>> >> >>)>>)
gLine == FeatureCollection(<<LineString(<< <<0, 0>>, <<0, 2>> >>)>>)
gNoGeometry == FeatureCollection(<<NoGeometry>>)
\* a feature whose geometry has a type Leaflet does not know
gUntyped == FeatureCollection(<<Untyped(<< <<0, 0>>, <<0, 2>> >>)>>)
gMixed ==
    FeatureCollection(<<Polygon(<< << <<4, 0>>, <<4, 2>>, <<4, 0>> >> >>), NoGeometry>>)

\* what the GeoJSON file of a city may hold
GeoSamples == {gEmpty, gPolygon, gNoGeometry, gMixed}

----------------------------------------------------------------------------
(* Leaflet and Math, on the coordinates the samples use *)

\* the degrees a sample coordinate may take
Coord == 0..4

\* L.latLng(lat1, lng1).distanceTo(L.latLng(lat2, lng2)) in metres, rounded:
\* the haversine distance on a sphere of radius 6371000 m, tabulated by
\* |lng2 - lng1|, lat1 and lat2
HaversineTable ==
    << << <<0, 111195, 222390, 333585, 444780>>,
          <<111195, 0, 111195, 222390, 333585>>,
          <<222390, 111195, 0, 111195, 222390>>,
          <<333585, 222390, 111195, 0, 111195>>,
          <<444780, 333585, 222390, 111195, 0>> >>,
       << <<111195, 157249, 248629, 351613, 458447>>,
          <<157249, 111178, 157225, 248607, 351592>>,
          <<248629, 157225, 111127, 157178, 248569>>,
          <<351613, 248607, 157178, 111043, 157106>>,
          <<458447, 351592, 248569, 157106, 110924>> >>,
       << <<222390, 248629, 314475, 400863, 497198>>,
          <<248629, 222356, 248569, 314403, 400787>>,
          <<314475, 248569, 222254, 248448, 314283>>,
          <<400863, 314403, 248448, 222085, 248266>>,
          <<497198, 400787, 314283, 248266, 221848>> >>,
       << <<333585, 351613, 400863, 471652, 555812>>,
          <<351613, 333534, 351517, 400736, 471509>>,
          <<400863, 351517, 333382, 351324, 400524>>,
          <<471652, 400736, 351324, 333128, 351035>>,
          <<555812, 471509, 400524, 351035, 332772>> >>,
       << <<444780, 458447, 497198, 555812, 628758>>,
          <<458447, 444712, 458315, 497016, 555595>>,
          <<497198, 458315, 444509, 458052, 496713>>,
          <<555812, 497016, 458052, 444170, 457658>>,
          <<628758, 555595, 496713, 457658, 443696>> >> >>

Abs(n) == IF n < 0 THEN -n ELSE n

\* point1.distanceTo(point2) for GeoJSON points p and q
distanceTo(p, q) == HaversineTable[Abs(q[1] - p[1]) + 1][p[2] + 1][q[2] + 1]

\* Math.round(Math.atan2(deltaLat, deltaLng) * (180 / Math.PI)), tabulated by
\* deltaLat and deltaLng
Atan2Table ==
    << <<0, 0, 0, 0, 0>>,
       <<90, 45, 27, 18, 14>>,
       <<90, 63, 45, 34, 27>>,
       <<90, 72, 56, 45, 37>>,
       <<90, 76, 63, 53, 45>> >>

Min(S) == CHOOSE m \in S : \A n \in S : m <= n
Max(S) == CHOOSE m \in S : \A n \in S : m >= n

RECURSIVE Flat(_)
\* Array.prototype.flat(): one level of nesting removed
Flat(ss) == IF ss = <<>> THEN <<>> ELSE Head(ss) \o Flat(Tail(ss))

RECURSIVE SumSeq(_)
SumSeq(ns) == IF ns = <<>> THEN 0 ELSE Head(ns) + SumSeq(Tail(ns))

\* an exception leaves a function: the value it would have returned is lost
Threw == [threw |-> TRUE, value |-> null]
Returned(v) == [threw |-> FALSE, value |-> v]

\* feature.geometry.type of a feature without geometry is a TypeError
HasNoGeometry(g) ==
    \E i \in 1..Len(g.features) : g.features[i].geometry.type = "null"

\* RingsOf that takes the coordinates of a LineString as one ring
RingsOfLines(feature) ==
    IF feature.geometry.type = "Polygon" THEN feature.geometry.coordinates
    ELSE IF feature.geometry.type = "MultiPolygon"
         THEN Flat(feature.geometry.coordinates)
         ELSE IF feature.geometry.type = "LineString"
              THEN <<feature.geometry.coordinates>>
              ELSE <<>>

\* the rings calculateBoundaryLength and calculateMainAngle walk in one feature
RingsOf(feature) ==
    IF feature.geometry.type = "Polygon" THEN feature.geometry.coordinates
    ELSE IF feature.geometry.type = "MultiPolygon"
         THEN Flat(feature.geometry.coordinates)
         ELSE <<>>

AllRings(g) == Flat([i \in 1..Len(g.features) |-> RingsOf(g.features[i])])

\* the inner for loop: adjacent vertices of one ring
RingLength(ring) ==
    IF Len(ring) > 1
    THEN SumSeq([i \in 1..(Len(ring) - 1) |-> distanceTo(ring[i], ring[i + 1])])
    ELSE 0

\* FormatLength that takes the "k km" form from 1000 km on
FormatLengthFromThousand(totalLength) ==
    IF totalLength >= 1000000
    THEN LET tenths == (totalLength + 50000) \div 100000
         IN  ToString(tenths \div 10) \o "." \o ToString(tenths % 10) \o "k km"
    ELSE ToString((totalLength + 500) \div 1000) \o " km"

\* `${(km / 1000).toFixed(1)}k km` or `${km.toFixed(0)} km`, km = metres / 1000
FormatLength(totalLength) ==
    IF totalLength > 1000000
    THEN LET tenths == (totalLength + 50000) \div 100000
         IN  ToString(tenths \div 10) \o "." \o ToString(tenths % 10) \o "k km"
    ELSE ToString((totalLength + 500) \div 1000) \o " km"

\* calculateBoundaryLength that answers "N/A" when it walked no ring
calculateBoundaryLengthOrNA(g) ==
    IF IsNullGeoJson(g) THEN Returned("N/A")
    ELSE IF HasNoGeometry(g) THEN Threw
    ELSE LET rings == AllRings(g)
             totalLength == SumSeq([i \in 1..Len(rings) |-> RingLength(rings[i])])
         IN  IF rings = <<>> THEN Returned("N/A")
             ELSE Returned(FormatLength(totalLength))

calculateBoundaryLength(g) ==
    IF IsNullGeoJson(g) THEN Returned("N/A")
    ELSE IF HasNoGeometry(g) THEN Threw
    ELSE LET rings == AllRings(g)
             totalLength == SumSeq([i \in 1..Len(rings) |-> RingLength(rings[i])])
         IN  Returned(FormatLength(totalLength))

\* calculateMainAngle that takes the angle of a single vertex
calculateMainAngleFromOne(g) ==
    IF IsNullGeoJson(g) THEN Returned("N/A")
    ELSE IF HasNoGeometry(g) THEN Threw
    ELSE LET allPoints == Flat(AllRings(g))
             lngs == {allPoints[i][1] : i \in 1..Len(allPoints)}
             lats == {allPoints[i][2] : i \in 1..Len(allPoints)}
         IN  IF Len(allPoints) < 1 THEN Returned("N/A")
             ELSE Returned(ToString(Atan2Table[Max(lats) - Min(lats) + 1]
                                              [Max(lngs) - Min(lngs) + 1])
                           \o "deg")

\* calculateMainAngle that takes the angle from the first vertex to the last
calculateMainAngleFirstToLast(g) ==
    IF IsNullGeoJson(g) THEN Returned("N/A")
    ELSE IF HasNoGeometry(g) THEN Threw
    ELSE LET allPoints == Flat(AllRings(g))
             first == allPoints[1]
             last_ == allPoints[Len(allPoints)]
         IN  IF Len(allPoints) < 2 THEN Returned("N/A")
             ELSE Returned(ToString(Atan2Table[Abs(last_[2] - first[2]) + 1]
                                              [Abs(last_[1] - first[1]) + 1])
                           \o "deg")

calculateMainAngle(g) ==
    IF IsNullGeoJson(g) THEN Returned("N/A")
    ELSE IF HasNoGeometry(g) THEN Threw
    ELSE LET allPoints == Flat(AllRings(g))
             lngs == {allPoints[i][1] : i \in 1..Len(allPoints)}
             lats == {allPoints[i][2] : i \in 1..Len(allPoints)}
         IN  IF Len(allPoints) < 2 THEN Returned("N/A")
             ELSE Returned(ToString(Atan2Table[Max(lats) - Min(lats) + 1]
                                              [Max(lngs) - Min(lngs) + 1])
                           \o "deg")

\* the vertices L.geoJSON(g) draws: every geometry type, features without
\* geometry left out
PointsOf(feature) ==
    IF feature.geometry.type = "LineString" THEN feature.geometry.coordinates
    ELSE Flat(RingsOf(feature))

LayerPoints(g) == Flat([i \in 1..Len(g.features) |-> PointsOf(g.features[i])])

\* L.geoJSON(g) throws 'Invalid GeoJSON object.' on a geometry whose type
\* it does not know; a feature without geometry is passed over
Drawable(g) ==
    \A i \in 1..Len(g.features) :
       g.features[i].geometry.type \in
          {"Polygon", "MultiPolygon", "LineString", "null"}

\* L.geoJSON(g).getBounds().getCenter(): <<lat, lng>> in half degrees; the
\* bounds of no vertex at all are invalid and getCenter() is a TypeError
getBoundsCenter(g) ==
    LET pts == IF Drawable(g) THEN LayerPoints(g) ELSE <<>>
        lngs == {pts[i][1] : i \in 1..Len(pts)}
        lats == {pts[i][2] : i \in 1..Len(pts)}
    IN  IF pts = <<>> THEN Threw
        ELSE [threw |-> FALSE,
              value |-> <<Min(lats) + Max(lats), Min(lngs) + Max(lngs)>>]

----------------------------------------------------------------------------
(* The store after construction *)

\* what a settled loader promise may carry: loadCityGeoJson returns
\* { geoJsonData } alone, other loaders add the table, summary and legend
LoaderResults ==
    {[geoJsonData |-> g, tableData |-> undefined, summaryData |-> undefined,
      legendData |-> undefined] : g \in {gEmpty, gPolygon, gUntyped}}
    \cup {[geoJsonData |-> gLine, tableData |-> "rows", summaryData |-> "stats",
           legendData |-> "legend"]}

\* layer.center of the city layers, [lng, lat] in whole degrees
center == [l \in LayerIds |-> <<100 + l, 30 + l>>]

\* a value of selectedBasemap, by what setBasemap reads of it: whether it
\* ends in '_theme' and whether defineStore.basemaps has a URL for it
Basemaps == [theme : BOOLEAN, url : BOOLEAN]

\* the basemap the define store of a build selects at construction:
\* 'carto_light_labels', 'google_satellite', 'red_theme'
\* the values selectedBasemap may take: only the basemaps of part_001:29-65
\* hold colour themes, and those have a URL; in the other two builds a
\* value ending in _theme finds no entry of basemaps, hence no URL
Selectable ==
    IF variant = "recheck" THEN Basemaps
    ELSE {b \in Basemaps : ~(b.theme /\ b.url)}

InitialBasemap ==
    IF variant = "recheck" THEN [theme |-> TRUE, url |-> TRUE]
    ELSE [theme |-> FALSE, url |-> TRUE]

\* a turn of the event loop: the operation, the layer id it was given, what
\* came of it and, for a navigation, the centre handed to setView
Turn(op, id, res, target) ==
    [op |-> op, id |-> id, outcome |-> res, target |-> target]

\* no summarizer is called on its own
NoCall == [fn |-> "idle", arg |-> NullGeoJson, result |-> Returned(null)]

\* the turn taken is recorded; two toggleLayerVisibility calls in a row may
\* record the same turn, and tick tells them apart
Took(op, id, res, target) ==
    /\ last' = Turn(op, id, res, target)
    /\ tick' = IF op = "toggle" THEN 1 - tick ELSE tick

InitStore ==
    /\ variant \in Variants
    /\ visible = [l \in LayerIds |-> FALSE]
    /\ isLoading = [l \in LayerIds |-> FALSE]
    /\ isLoaded = [l \in LayerIds |-> FALSE]
    /\ geoJsonData = [l \in LayerIds |-> NullGeoJson]
    /\ tableData = [l \in LayerIds |-> null]
    /\ summaryData = [l \in LayerIds |-> null]
    /\ legendData = [l \in LayerIds |-> null]
    /\ flag \in [LayerIds -> {"none", "analysis", "isochrone"}]
    /\ variant # "toggle" => flag = [l \in LayerIds |-> "none"]
    /\ length = [l \in LayerIds |-> null]
    /\ angle = [l \in LayerIds |-> null]
    /\ boundsCenter = [l \in LayerIds |-> NullPoint]
    /\ inflight = [c \in Callers |-> [l \in LayerIds |-> 0]]
    /\ pc = [r \in Runs |-> "idle"]
    /\ idx = [r \in Runs |-> 1]
    /\ outcome = [c \in Callers |-> [l \in LayerIds |-> "none"]]
    /\ mapPhase = "unmounted"
    /\ attempts = 0
    /\ mapInstance = FALSE
    /\ layerGroups = {}
    /\ selectedBasemap = InitialBasemap
    /\ currentTileLayer = null
    /\ tilesOnMap = 0
    /\ navTimers = [i \in LayerIds |-> 0]
    /\ homeThen = "none"
    /\ last = Turn("init", UnknownId, "none", NullPoint)
    /\ tick = 0

Init == InitStore /\ call = NoCall

\* findLayerById that falls back on the first layer
findLayerByIdOrFirst(layerId) == IF layerId \in LayerIds THEN layerId ELSE 1

findLayerById(layerId) == IF layerId \in LayerIds THEN layerId ELSE UnknownId

getAllLayers == [l \in LayerIds |-> l]

Invoke(caller, l) ==
    [inflight EXCEPT ![caller][l] = inflight[caller][l] + 1]
Settle(caller, l) ==
    [inflight EXCEPT ![caller][l] = inflight[caller][l] - 1]

\* outcome after a loader call: "retrying" when the call before it was rejected
Called(caller, l) ==
    IF outcome[caller][l] \in {"rejected", "retrying"} THEN "retrying" ELSE "pending"

----------------------------------------------------------------------------
(* The map component: setBasemap, createFeatureLayer, syncLayers,          *)
(* src/unnamed/part_002:183-797, src/unnamed/part_003:165-362,             *)
(* src/src/tabs/MapTab.vue:132-290                                         *)

\* setBasemap that leaves the tile layer it finds on the map
setBasemapKeepsOld(b, cur, tiles) ==
    LET kept == IF cur = null \/ variant = "toggle" THEN null ELSE "detached"
        adds == b.url /\ ~(variant = "recheck" /\ b.theme)
    IN  [currentTileLayer |-> IF adds THEN "attached" ELSE kept,
         tilesOnMap |-> IF adds THEN tiles + 1 ELSE tiles]

\* setBasemap with the map there: the tile layer currentTileLayer refers to
\* is taken off the map; part_002 forgets it, the other two components keep
\* the reference; a new tile layer is attached when the basemap has a URL
\* and, in part_003, is no colour theme. The answer is what currentTileLayer
\* refers to and the tile layers on the map afterwards.
setBasemap(b, cur, tiles) ==
    LET removed == IF cur = "attached" THEN tiles - 1 ELSE tiles
        kept == IF cur = null \/ variant = "toggle" THEN null ELSE "detached"
        adds == b.url /\ ~(variant = "recheck" /\ b.theme)
    IN  [currentTileLayer |-> IF adds THEN "attached" ELSE kept,
         tilesOnMap |-> IF adds THEN removed + 1 ELSE removed]

createFeatureLayer(g) ==
    IF IsNullGeoJson(g) THEN Returned(null)
    ELSE IF Drawable(g) THEN Returned("layer")
    ELSE Threw

\* syncLayers that removes nothing from the map
syncLayersAddsOnly(groups, vis, data, ready) ==
    IF ~ready THEN groups
    ELSE groups \cup {l \in LayerIds :
                         /\ vis[l] /\ ~IsNullGeoJson(data[l])
                         /\ createFeatureLayer(data[l]) = Returned("layer")}

\* part_002: syncLayers on the layers with visibility vis and data, the
\* answer being the keys of layerGroups afterwards
syncLayers(groups, vis, data, ready) ==
    IF ~ready THEN groups
    ELSE LET visibleLayerIds ==
                {l \in LayerIds : vis[l] /\ ~IsNullGeoJson(data[l])}
             layersToRemove == groups \ visibleLayerIds
             hasAnalysisLayerUpdate ==
                \E l \in visibleLayerIds : flag[l] = "analysis"
             left == IF hasAnalysisLayerUpdate THEN {}
                     ELSE groups \ layersToRemove
         IN  left \cup {l \in visibleLayerIds \ left :
                           createFeatureLayer(data[l]) = Returned("layer")}

\* part_003 and MapTab.vue: the layers at which the forEach of syncLayers
\* calls createFeatureLayer and L.geoJSON throws
Undrawn(groups, data) ==
    {l \in LayerIds : /\ ~IsNullGeoJson(data[l])
                      /\ l \notin groups
                      /\ createFeatureLayer(data[l]) = Threw}

\* syncLayers has no try block: the forEach ends at the first such layer
syncCityThrows(groups, data, ready) == ready /\ Undrawn(groups, data) # {}

\* part_003 and MapTab.vue: syncLayers, every layer that has data is shown;
\* the layers after one that throws are left as they were
syncCityLayers(groups, data, ready) ==
    IF ~ready THEN groups
    ELSE LET reached == {l \in LayerIds :
                            \A u \in Undrawn(groups, data) : l < u}
         IN  {l \in reached : ~IsNullGeoJson(data[l])}
                \cup (groups \ reached)

----------------------------------------------------------------------------
(* toggleLayerVisibility, src/src/stores/dataStore.js:254-301 *)

\* ShouldLoad without its isLoading test
ShouldLoadWhileLoading(layer, vis) ==
    /\ vis
    /\ ~isLoaded[layer]
    /\ flag[layer] # "analysis"
    /\ flag[layer] # "isochrone"

\* ShouldLoad without its isIsochroneAnalysisLayer test
ShouldLoadIsochrone(layer, vis) ==
    /\ vis
    /\ ~isLoaded[layer]
    /\ ~isLoading[layer]
    /\ flag[layer] # "analysis"

\* the condition under which the flipped layer is loaded
ShouldLoad(layer, vis) ==
    /\ vis
    /\ ~isLoaded[layer]
    /\ ~isLoading[layer]
    /\ flag[layer] # "analysis"
    /\ flag[layer] # "isochrone"

\* toggleLayerVisibility that drops the data of a layer it hides
toggleLayerVisibilityUnloads(layerId) ==
    /\ variant = "toggle"
    /\ LET layer == findLayerById(layerId)
           vis == ~visible[layer]
           hides == layer # UnknownId /\ ~vis
       IN  /\ IF layer = UnknownId
              THEN /\ Took("toggle", layerId, "resolved", NullPoint)
                   /\ UNCHANGED <<visible, isLoading, inflight, outcome>>
              ELSE /\ visible' = [visible EXCEPT ![layer] = vis]
                   /\ IF ShouldLoad(layer, vis)
                      THEN /\ isLoading' = [isLoading EXCEPT ![layer] = TRUE]
                           /\ inflight' = Invoke("toggle", layer)
                           /\ outcome' = [outcome EXCEPT !["toggle"][layer] =
                                             Called("toggle", layer)]
                           /\ Took("toggle", layerId, "pending", NullPoint)
                      ELSE /\ UNCHANGED <<isLoading, inflight, outcome>>
                           /\ Took("toggle", layerId, "resolved", NullPoint)
           /\ geoJsonData' = IF hides THEN [geoJsonData EXCEPT ![layer] = NullGeoJson]
                             ELSE geoJsonData
           /\ isLoaded' = IF hides THEN [isLoaded EXCEPT ![layer] = FALSE]
                          ELSE isLoaded
    /\ UNCHANGED <<variant, call, tileVars, tableData, summaryData, legendData, flag, cityVars,
                   runVars, mapVars, navTimers, homeThen>>
    /\ layerGroups' = syncLayers(layerGroups, visible', geoJsonData', mapInstance)

\* the call up to its await, or to its end
toggleLayerVisibility(layerId) ==
    /\ variant = "toggle"
    /\ LET layer == findLayerById(layerId)
           vis == ~visible[layer]
       IN  IF layer = UnknownId
           THEN /\ Took("toggle", layerId, "resolved", NullPoint)
                /\ UNCHANGED <<visible, isLoading, inflight, outcome>>
           ELSE /\ visible' = [visible EXCEPT ![layer] = vis]
                /\ IF ShouldLoad(layer, vis)
                   THEN /\ isLoading' = [isLoading EXCEPT ![layer] = TRUE]
                        /\ inflight' = Invoke("toggle", layer)
                        /\ outcome' = [outcome EXCEPT !["toggle"][layer] =
                                          Called("toggle", layer)]
                        /\ Took("toggle", layerId, "pending", NullPoint)
                   ELSE /\ UNCHANGED <<isLoading, inflight, outcome>>
                        /\ Took("toggle", layerId, "resolved", NullPoint)
    /\ UNCHANGED <<variant, call, tileVars, isLoaded, geoJsonData, tableData, summaryData,
                   legendData, flag, cityVars, runVars, mapVars, navTimers,
                   homeThen>>
    /\ layerGroups' = syncLayers(layerGroups, visible', geoJsonData', mapInstance)

\* toggleLoaded without its finally block
toggleLoadedStaysLoading(layer, result) ==
    /\ variant = "toggle"
    /\ inflight["toggle"][layer] > 0
    /\ inflight' = Settle("toggle", layer)
    /\ outcome' = [outcome EXCEPT !["toggle"][layer] = "resolved"]
    /\ geoJsonData' = [geoJsonData EXCEPT ![layer] = result.geoJsonData]
    /\ tableData' = [tableData EXCEPT ![layer] = result.tableData]
    /\ summaryData' = [summaryData EXCEPT ![layer] = result.summaryData]
    /\ legendData' = [legendData EXCEPT ![layer] =
                        IF result.legendData = undefined THEN null
                        ELSE result.legendData]
    /\ isLoaded' = [isLoaded EXCEPT ![layer] = TRUE]
    /\ Took("toggleLoaded", layer, "resolved", NullPoint)
    /\ UNCHANGED <<variant, call, tileVars, visible, isLoading, flag, cityVars, runVars,
                   mapVars, navTimers, homeThen>>
    /\ layerGroups' = syncLayers(layerGroups, visible', geoJsonData', mapInstance)

\* the loader resolved: the rest of the try block, then finally
toggleLoaded(layer, result) ==
    /\ variant = "toggle"
    /\ inflight["toggle"][layer] > 0
    /\ inflight' = Settle("toggle", layer)
    /\ outcome' = [outcome EXCEPT !["toggle"][layer] = "resolved"]
    /\ geoJsonData' = [geoJsonData EXCEPT ![layer] = result.geoJsonData]
    /\ tableData' = [tableData EXCEPT ![layer] = result.tableData]
    /\ summaryData' = [summaryData EXCEPT ![layer] = result.summaryData]
    /\ legendData' = [legendData EXCEPT ![layer] =
                        IF result.legendData = undefined THEN null
                        ELSE result.legendData]
    /\ isLoaded' = [isLoaded EXCEPT ![layer] = TRUE]
    /\ isLoading' = [isLoading EXCEPT ![layer] = FALSE]
    /\ Took("toggleLoaded", layer, "resolved", NullPoint)
    /\ UNCHANGED <<variant, call, tileVars, visible, flag, cityVars, runVars, mapVars,
                   navTimers, homeThen>>
    /\ layerGroups' = syncLayers(layerGroups, visible', geoJsonData', mapInstance)

\* toggleFailed without the assignment of its catch block
toggleFailedKeepsVisible(layer) ==
    /\ variant = "toggle"
    /\ inflight["toggle"][layer] > 0
    /\ inflight' = Settle("toggle", layer)
    /\ outcome' = [outcome EXCEPT !["toggle"][layer] = "rejected"]
    /\ isLoading' = [isLoading EXCEPT ![layer] = FALSE]
    /\ Took("toggleFailed", layer, "resolved", NullPoint)
    /\ UNCHANGED <<variant, call, tileVars, visible, isLoaded, geoJsonData, tableData,
                   summaryData, legendData, flag, cityVars, runVars, mapVars,
                   navTimers, homeThen>>
    /\ layerGroups' = syncLayers(layerGroups, visible', geoJsonData', mapInstance)

\* toggleFailed without its finally block
toggleFailedStaysLoading(layer) ==
    /\ variant = "toggle"
    /\ inflight["toggle"][layer] > 0
    /\ inflight' = Settle("toggle", layer)
    /\ outcome' = [outcome EXCEPT !["toggle"][layer] = "rejected"]
    /\ visible' = [visible EXCEPT ![layer] = FALSE]
    /\ Took("toggleFailed", layer, "resolved", NullPoint)
    /\ UNCHANGED <<variant, call, tileVars, isLoading, isLoaded, geoJsonData, tableData,
                   summaryData, legendData, flag, cityVars, runVars, mapVars,
                   navTimers, homeThen>>
    /\ layerGroups' = syncLayers(layerGroups, visible', geoJsonData', mapInstance)

\* toggleFailed that hides every layer
toggleFailedHidesAll(layer) ==
    /\ variant = "toggle"
    /\ inflight["toggle"][layer] > 0
    /\ inflight' = Settle("toggle", layer)
    /\ outcome' = [outcome EXCEPT !["toggle"][layer] = "rejected"]
    /\ visible' = [l \in LayerIds |-> FALSE]
    /\ isLoading' = [isLoading EXCEPT ![layer] = FALSE]
    /\ Took("toggleFailed", layer, "resolved", NullPoint)
    /\ UNCHANGED <<variant, call, tileVars, isLoaded, geoJsonData, tableData, summaryData,
                   legendData, flag, cityVars, runVars, mapVars, navTimers,
                   homeThen>>
    /\ layerGroups' = syncLayers(layerGroups, visible', geoJsonData', mapInstance)

\* the loader rejected: catch, then finally
toggleFailed(layer) ==
    /\ variant = "toggle"
    /\ inflight["toggle"][layer] > 0
    /\ inflight' = Settle("toggle", layer)
    /\ outcome' = [outcome EXCEPT !["toggle"][layer] = "rejected"]
    /\ visible' = [visible EXCEPT ![layer] = FALSE]
    /\ isLoading' = [isLoading EXCEPT ![layer] = FALSE]
    /\ Took("toggleFailed", layer, "resolved", NullPoint)
    /\ UNCHANGED <<variant, call, tileVars, isLoaded, geoJsonData, tableData, summaryData,
                   legendData, flag, cityVars, runVars, mapVars, navTimers,
                   homeThen>>
    /\ layerGroups' = syncLayers(layerGroups, visible', geoJsonData', mapInstance)

----------------------------------------------------------------------------
(* loadCityLayers, src/src/stores/dataStore.js:661-698 ("summary") and     *)
(* src/unnamed/part_000:207-248 ("recheck")                                *)

CityBuild == variant \in {"summary", "recheck"}

\* NeedsLoad without the test: every layer is loaded again
NeedsLoadAlways(layer) == TRUE

\* if (!layer.geoJsonData)
NeedsLoad(layer) == IsNullGeoJson(geoJsonData[layer])

\* the first layer from i on that the for loop stops at; NumLayers + 1 when
\* the loop runs to its end
NextToLoad(i) ==
    IF \E j \in i..NumLayers : NeedsLoad(j)
    THEN Min({j \in i..NumLayers : NeedsLoad(j)})
    ELSE NumLayers + 1

\* Invoked for a loop that does not await: cityLayers.forEach(async ...)
InvokedAll(i) == {j \in i..NumLayers : NeedsLoad(j)}

\* the layers whose loader one turn of the loop invokes when it goes on at
\* layer i: the loop awaits the first loader it calls
Invoked(i) == IF NextToLoad(i) <= NumLayers THEN {NextToLoad(i)} ELSE {}

\* the layers that turn passes over because they hold data
Skipped(i) == {j \in i..NumLayers : j < NextToLoad(i) /\ ~NeedsLoad(j)}

\* part_000:231-241, the else branch: a missing boundsCenter is recomputed;
\* the TypeError of an empty bounds is caught by the loop's catch
Recheck(bc, layer) ==
    IF bc[layer] = NullPoint /\ ~getBoundsCenter(geoJsonData[layer]).threw
    THEN getBoundsCenter(geoJsonData[layer]).value
    ELSE bc[layer]

InflightAfter(base, run, S) ==
    [base EXCEPT ![run] =
        [l \in LayerIds |-> base[run][l] + (IF l \in S THEN 1 ELSE 0)]]

\* the for loop from layer i on, up to its next await or to its end; bc,
\* base and out are boundsCenter, inflight and outcome as the turn found or
\* left them
LoopFrom(run, i, bc, base, out) ==
    /\ boundsCenter' =
         [j \in LayerIds |->
            IF variant = "recheck" /\ j \in Skipped(i) THEN Recheck(bc, j)
            ELSE bc[j]]
    /\ inflight' = InflightAfter(base, run, Invoked(i))
    /\ outcome' = [out EXCEPT ![run] =
                      [l \in LayerIds |->
                         IF l \in Invoked(i) THEN Called(run, l) ELSE out[run][l]]]
    /\ IF Invoked(i) = {}
       THEN /\ pc' = [pc EXCEPT ![run] = "done"]
            /\ idx' = [idx EXCEPT ![run] = NumLayers + 1]
       ELSE /\ pc' = [pc EXCEPT ![run] = "await"]
            /\ idx' = [idx EXCEPT ![run] = Min(Invoked(i))]

\* dataStore.js:670-685: what a resolved loader leaves in length, angle and
\* boundsCenter of the layer; an exception of the summarizers or of
\* getCenter() ends the try block where it is raised
SummaryAfter(layer, g) ==
    LET len == calculateBoundaryLength(g)
        ang == calculateMainAngle(g)
        ctr == getBoundsCenter(g)
    IN  [length |-> IF len.threw THEN length[layer] ELSE len.value,
         angle |-> IF len.threw \/ ang.threw THEN angle[layer] ELSE ang.value,
         boundsCenter |->
            IF len.threw \/ ang.threw \/ Len(g.features) = 0 \/ ctr.threw
            THEN boundsCenter[layer]
            ELSE ctr.value]

\* part_000:220-227: the same for the build without length and angle
RecheckAfter(layer, g) ==
    LET ctr == getBoundsCenter(g)
    IN  [length |-> length[layer],
         angle |-> angle[layer],
         boundsCenter |->
            IF Len(g.features) = 0 \/ ctr.threw THEN boundsCenter[layer]
            ELSE ctr.value]

\* HomeView's mount hook calls loadCityLayers: the run up to its first await
HomeMounted ==
    /\ CityBuild
    /\ pc["home"] = "idle"
    /\ LoopFrom("home", 1, boundsCenter, inflight, outcome)
    /\ Took("loadCityLayers", UnknownId, "home", NullPoint)
    /\ UNCHANGED <<variant, call, viewVars, toggleVars, geoJsonData, flag, length, angle,
                   mapVars, navTimers, homeThen>>

\* the timer that initMap set calls loadCityLayers
MapTabTimer ==
    /\ CityBuild
    /\ pc["maptab"] = "timer"
    /\ LoopFrom("maptab", 1, boundsCenter, inflight, outcome)
    /\ Took("loadCityLayers", UnknownId, "maptab", NullPoint)
    /\ UNCHANGED <<variant, call, viewVars, toggleVars, geoJsonData, flag, length, angle,
                   mapVars, navTimers, homeThen>>

Awaits(run, layer) == pc[run] = "await" /\ idx[run] = layer

\* a loader that a run awaits resolved with g: the rest of the try block,
\* then the loop goes on
cityLoaded(run, layer, g) ==
    /\ CityBuild
    /\ inflight[run][layer] > 0
    /\ IF Awaits(run, layer)
       THEN LET after == IF variant = "summary" THEN SummaryAfter(layer, g)
                         ELSE RecheckAfter(layer, g)
            IN  /\ geoJsonData' = [geoJsonData EXCEPT ![layer] = g]
                /\ length' = [length EXCEPT ![layer] = after.length]
                /\ angle' = [angle EXCEPT ![layer] = after.angle]
                /\ LoopFrom(run, layer + 1,
                            [boundsCenter EXCEPT ![layer] = after.boundsCenter],
                            Settle(run, layer),
                            [outcome EXCEPT ![run][layer] = "resolved"])
       ELSE /\ inflight' = Settle(run, layer)
            /\ outcome' = [outcome EXCEPT ![run][layer] = "resolved"]
            /\ UNCHANGED <<geoJsonData, cityVars, runVars>>
    /\ Took("cityLoaded", layer, run, NullPoint)
    /\ UNCHANGED <<variant, call, tileVars, toggleVars, flag, mapVars, navTimers, homeThen>>
    /\ layerGroups' = syncCityLayers(layerGroups, geoJsonData', mapInstance)

\* cityFailed without the try block: the rejection ends the run
cityFailedEndsRun(run, layer) ==
    /\ CityBuild
    /\ inflight[run][layer] > 0
    /\ inflight' = Settle(run, layer)
    /\ outcome' = [outcome EXCEPT ![run][layer] = "rejected"]
    /\ pc' = IF Awaits(run, layer) THEN [pc EXCEPT ![run] = "done"] ELSE pc
    /\ Took("cityFailed", layer, run, NullPoint)
    /\ UNCHANGED <<variant, call, viewVars, toggleVars, geoJsonData, flag, cityVars, idx,
                   mapVars, navTimers, homeThen>>

\* a loader that a run awaits rejected: catch, then the loop goes on
cityFailed(run, layer) ==
    /\ CityBuild
    /\ inflight[run][layer] > 0
    /\ IF Awaits(run, layer)
       THEN LoopFrom(run, layer + 1, boundsCenter, Settle(run, layer),
                     [outcome EXCEPT ![run][layer] = "rejected"])
       ELSE /\ inflight' = Settle(run, layer)
            /\ outcome' = [outcome EXCEPT ![run][layer] = "rejected"]
            /\ UNCHANGED <<boundsCenter, runVars>>
    /\ Took("cityFailed", layer, run, NullPoint)
    /\ UNCHANGED <<variant, call, viewVars, toggleVars, geoJsonData, flag, length, angle,
                   mapVars, navTimers, homeThen>>

----------------------------------------------------------------------------
(* navigateToCity, src/src/stores/dataStore.js:720-797 and                 *)
(* src/unnamed/part_000:275-330                                            *)

\* the retry timers that wait
TimersWaiting == SumSeq([i \in LayerIds |-> navTimers[i]])

\* the static centre turned round for Leaflet: [lat, lng], in half degrees
StaticTarget(layer) == <<2 * center[layer][2], 2 * center[layer][1]>>

\* NavigateNow with the static centre tried first
NavigateNowStaticFirst(cityId) ==
    LET cityLayer == findLayerById(cityId)
        g == geoJsonData[cityLayer]
    IN  IF cityLayer = UnknownId THEN [outcome |-> "notFound", target |-> NullPoint]
        ELSE IF center[cityLayer] # NullPoint
             THEN [outcome |-> "setView", target |-> StaticTarget(cityLayer)]
        ELSE IF boundsCenter[cityLayer] # NullPoint
             THEN [outcome |-> "setView", target |-> boundsCenter[cityLayer]]
        ELSE IF ~IsNullGeoJson(g) /\ Len(g.features) > 0
             THEN IF getBoundsCenter(g).threw
                  THEN [outcome |-> "threw", target |-> NullPoint]
                  ELSE [outcome |-> "setView", target |-> getBoundsCenter(g).value]
        ELSE [outcome |-> "noCenter", target |-> NullPoint]

\* the call with the map instance set: the centre chosen and what came of it
NavigateNow(cityId) ==
    LET cityLayer == findLayerById(cityId)
        g == geoJsonData[cityLayer]
    IN  IF cityLayer = UnknownId THEN [outcome |-> "notFound", target |-> NullPoint]
        ELSE IF boundsCenter[cityLayer] # NullPoint
             THEN [outcome |-> "setView", target |-> boundsCenter[cityLayer]]
        ELSE IF ~IsNullGeoJson(g) /\ Len(g.features) > 0
             THEN IF getBoundsCenter(g).threw
                  THEN [outcome |-> "threw", target |-> NullPoint]
                  ELSE [outcome |-> "setView", target |-> getBoundsCenter(g).value]
        ELSE IF center[cityLayer] # NullPoint
             THEN [outcome |-> "setView", target |-> StaticTarget(cityLayer)]
        ELSE [outcome |-> "noCenter", target |-> NullPoint]

\* navigateToCity that caches the centre it computed from the geoJsonData
navigateToCityCaches(cityId) ==
    /\ CityBuild
    /\ IF findLayerById(cityId) = UnknownId
       THEN /\ Took("navigateToCity", cityId, "notFound", NullPoint)
            /\ UNCHANGED <<navTimers, boundsCenter>>
       ELSE IF ~mapInstance
       THEN /\ TimersWaiting < MaxTimers
            /\ navTimers' = [navTimers EXCEPT ![cityId] = navTimers[cityId] + 1]
            /\ Took("navigateToCity", cityId, "deferred", NullPoint)
            /\ UNCHANGED boundsCenter
       ELSE /\ Took("navigateToCity", cityId, NavigateNow(cityId).outcome,
                    NavigateNow(cityId).target)
            /\ boundsCenter' =
                  IF NavigateNow(cityId).outcome = "setView"
                     /\ NavigateNow(cityId).target # StaticTarget(cityId)
                  THEN [boundsCenter EXCEPT ![cityId] = NavigateNow(cityId).target]
                  ELSE boundsCenter
            /\ UNCHANGED navTimers
    /\ UNCHANGED <<variant, call, viewVars, toggleVars, geoJsonData, flag, length, angle,
                   inflight, outcome, runVars, mapVars, homeThen>>

\* navigateToCity that goes to the first city when the id is unknown
navigateToCityOrFirst(cityId) ==
    /\ CityBuild
    /\ LET id == IF findLayerById(cityId) = UnknownId THEN 1 ELSE cityId
       IN  IF ~mapInstance
           THEN /\ TimersWaiting < MaxTimers
                /\ navTimers' = [navTimers EXCEPT ![id] = navTimers[id] + 1]
                /\ Took("navigateToCity", cityId, "deferred", NullPoint)
           ELSE /\ Took("navigateToCity", cityId, NavigateNow(id).outcome,
                        NavigateNow(id).target)
                /\ UNCHANGED navTimers
    /\ UNCHANGED <<variant, call, viewVars, toggleVars, geoJsonData, flag, cityVars, inflight,
                   outcome, runVars, mapVars, homeThen>>

navigateToCity(cityId) ==
    /\ CityBuild
    /\ IF findLayerById(cityId) = UnknownId
       THEN /\ Took("navigateToCity", cityId, "notFound", NullPoint)
            /\ UNCHANGED navTimers
       ELSE IF ~mapInstance
       THEN /\ TimersWaiting < MaxTimers
            /\ navTimers' = [navTimers EXCEPT ![cityId] = navTimers[cityId] + 1]
            /\ Took("navigateToCity", cityId, "deferred", NullPoint)
       ELSE /\ Took("navigateToCity", cityId, NavigateNow(cityId).outcome,
                            NavigateNow(cityId).target)
            /\ UNCHANGED navTimers
    /\ UNCHANGED <<variant, call, viewVars, toggleVars, geoJsonData, flag, cityVars, inflight,
                   outcome, runVars, mapVars, homeThen>>

\* the setTimeout callback of a deferred call, 1000 ms later
navigateRetry(cityId) ==
    /\ CityBuild
    /\ navTimers[cityId] > 0
    /\ navTimers' = [navTimers EXCEPT ![cityId] = navTimers[cityId] - 1]
    /\ IF mapInstance
       THEN Took("navigateRetry", cityId, NavigateNow(cityId).outcome,
                         NavigateNow(cityId).target)
       ELSE Took("navigateRetry", cityId, "dropped", NullPoint)
    /\ UNCHANGED <<variant, call, viewVars, toggleVars, geoJsonData, flag, cityVars, inflight,
                   outcome, runVars, mapVars, homeThen>>

\* HomeThen that does not wait for the promise of loadCityLayers
HomeThenAtOnce ==
    /\ CityBuild
    /\ pc["home"] # "idle"
    /\ homeThen = "none"
    /\ homeThen' = "ran"
    /\ IF ~mapInstance
       THEN /\ TimersWaiting < MaxTimers
            /\ navTimers' = [navTimers EXCEPT ![1] = navTimers[1] + 1]
            /\ Took("HomeThen", 1, "deferred", NullPoint)
       ELSE /\ Took("HomeThen", 1, NavigateNow(1).outcome,
                            NavigateNow(1).target)
            /\ UNCHANGED navTimers
    /\ UNCHANGED <<variant, call, viewVars, toggleVars, geoJsonData, flag, cityVars, inflight,
                   outcome, runVars, mapVars>>

\* HomeView: loadCityLayers().then(() => navigateToCity('Xian')), the first
\* layer of the group
HomeThen ==
    /\ CityBuild
    /\ pc["home"] = "done"
    /\ homeThen = "none"
    /\ homeThen' = "ran"
    /\ IF ~mapInstance
       THEN /\ TimersWaiting < MaxTimers
            /\ navTimers' = [navTimers EXCEPT ![1] = navTimers[1] + 1]
            /\ Took("HomeThen", 1, "deferred", NullPoint)
       ELSE /\ Took("HomeThen", 1, NavigateNow(1).outcome,
                            NavigateNow(1).target)
            /\ UNCHANGED navTimers
    /\ UNCHANGED <<variant, call, viewVars, toggleVars, geoJsonData, flag, cityVars, inflight,
                   outcome, runVars, mapVars>>

----------------------------------------------------------------------------
(* MapTab: initMap, src/unnamed/part_003:383-412 *)

\* onMounted: nextTick(() => initMap()), after HomeView's own mount hook
initMap ==
    /\ CityBuild
    /\ mapPhase = "unmounted"
    /\ pc["home"] # "idle"
    /\ mapPhase' = "trying"
    /\ Took("initMap", UnknownId, "none", NullPoint)
    /\ UNCHANGED <<variant, call, viewVars, toggleVars, geoJsonData, flag, cityVars, inflight,
                   outcome, runVars, attempts, mapInstance, navTimers, homeThen>>

\* one call of tryCreateMap; created is what createMap() returns
tryCreateMap(created) ==
    /\ CityBuild
    /\ mapPhase = "trying"
    /\ IF attempts >= maxAttempts
       THEN /\ mapPhase' = "failed"
            /\ Took("tryCreateMap", UnknownId, "gaveUp", NullPoint)
            /\ UNCHANGED <<attempts, mapInstance, pc, layerGroups,
                           currentTileLayer, tilesOnMap>>
       ELSE IF created
       THEN /\ mapPhase' = "ready"
            /\ attempts' = 0
            /\ mapInstance' = TRUE
            /\ currentTileLayer' =
                  setBasemap(selectedBasemap, currentTileLayer,
                             tilesOnMap).currentTileLayer
            /\ tilesOnMap' =
                  setBasemap(selectedBasemap, currentTileLayer,
                             tilesOnMap).tilesOnMap
            /\ layerGroups' = syncCityLayers(layerGroups, geoJsonData, TRUE)
            /\ IF syncCityThrows(layerGroups, geoJsonData, TRUE)
               THEN /\ pc' = pc
                    /\ Took("tryCreateMap", UnknownId, "threw", NullPoint)
               ELSE /\ pc' = [pc EXCEPT !["maptab"] = "timer"]
                    /\ Took("tryCreateMap", UnknownId, "created", NullPoint)
       ELSE /\ attempts' = attempts + 1
            /\ Took("tryCreateMap", UnknownId, "retry", NullPoint)
            /\ UNCHANGED <<mapPhase, mapInstance, pc, layerGroups,
                           currentTileLayer, tilesOnMap>>
    /\ UNCHANGED <<variant, call, selectedBasemap, toggleVars, geoJsonData, flag,
                   cityVars, inflight, outcome, idx, navTimers, homeThen>>

----------------------------------------------------------------------------
(* The map component of the toggle build: onMounted, initMap, tryInit,     *)
(* src/unnamed/part_002:1151-1190                                          *)

\* onMounted: nextTick, then the timer that calls initMap
onMounted ==
    /\ variant = "toggle"
    /\ mapPhase = "unmounted"
    /\ mapPhase' = "trying"
    /\ Took("onMounted", UnknownId, "none", NullPoint)
    /\ UNCHANGED <<variant, call, viewVars, toggleVars, geoJsonData, flag, cityVars,
                   inflight, outcome, runVars, attempts, mapInstance, navTimers,
                   homeThen>>

\* one call of tryInit; created is what createMap() returns
tryInit(created) ==
    /\ variant = "toggle"
    /\ mapPhase = "trying"
    /\ IF attempts >= maxAttempts
       THEN /\ mapPhase' = "failed"
            /\ Took("tryInit", UnknownId, "gaveUp", NullPoint)
            /\ UNCHANGED <<attempts, mapInstance, layerGroups, currentTileLayer,
                           tilesOnMap>>
       ELSE IF created
       THEN /\ mapPhase' = "ready"
            /\ attempts' = 0
            /\ mapInstance' = TRUE
            /\ currentTileLayer' =
                  setBasemap(selectedBasemap, currentTileLayer,
                             tilesOnMap).currentTileLayer
            /\ tilesOnMap' =
                  setBasemap(selectedBasemap, currentTileLayer,
                             tilesOnMap).tilesOnMap
            /\ layerGroups' = syncLayers(layerGroups, visible, geoJsonData, TRUE)
            /\ Took("tryInit", UnknownId, "created", NullPoint)
       ELSE /\ attempts' = attempts + 1
            /\ Took("tryInit", UnknownId, "retry", NullPoint)
            /\ UNCHANGED <<mapPhase, mapInstance, layerGroups, currentTileLayer,
                           tilesOnMap>>
    /\ UNCHANGED <<variant, call, selectedBasemap, toggleVars, geoJsonData, flag,
                   cityVars, inflight, outcome, runVars, navTimers, homeThen>>

----------------------------------------------------------------------------
(* A change of the basemap: defineStore.setSelectedBasemap and the watcher *)
(* of the map component, src/unnamed/part_002:1138-1141 and 1230-1237,     *)
(* src/unnamed/part_003:468-475, src/src/tabs/MapTab.vue:394-401           *)

\* the store takes the value; with the map ready setBasemap runs, called by
\* changeBasemap itself or by the watcher, and a second run changes nothing
setSelectedBasemap(value) ==
    /\ value \in Selectable
    /\ selectedBasemap' = value
    /\ IF mapInstance
       THEN /\ currentTileLayer' =
                  setBasemap(value, currentTileLayer, tilesOnMap).currentTileLayer
            /\ tilesOnMap' =
                  setBasemap(value, currentTileLayer, tilesOnMap).tilesOnMap
       ELSE UNCHANGED <<currentTileLayer, tilesOnMap>>
    /\ Took("setSelectedBasemap", UnknownId,
            IF mapInstance /\ currentTileLayer = "attached"
            THEN "removed" ELSE "none", NullPoint)
    /\ UNCHANGED <<variant, call, layerGroups, toggleVars, geoJsonData, flag,
                   cityVars, inflight, outcome, runVars, mapVars, navTimers,
                   homeThen>>

----------------------------------------------------------------------------
(* calculateBoundaryLength and calculateMainAngle called on their own,     *)
(* src/src/stores/dataStore.js:569-654                                     *)

SamplePoints == {<<0, 0>>, <<0, 1>>, <<4, 4>>}

\* rings and lines of up to MaxRing vertices
SampleRings == UNION {[1..n -> SamplePoints] : n \in 0..MaxRing}

ShortRings == [1..2 -> SamplePoints]

FeatureKinds ==
    {"Polygon", "MultiPolygon", "LineString", "Untyped", "Empty", "Null"}

\* a feature of the kind with the vertices of ring
Feature(kind, ring) ==
    CASE kind = "Polygon" -> Polygon(<<ring>>)
      [] kind = "MultiPolygon" -> MultiPolygon(<< <<ring>>, <<ring>> >>)
      [] kind = "LineString" -> LineString(ring)
      [] kind = "Untyped" -> Untyped(ring)
      [] kind = "Empty" -> Polygon(<<>>)
      [] OTHER -> NoGeometry

storeVars == <<variant, visible, isLoading, isLoaded, geoJsonData, tableData,
               summaryData, legendData, flag, length, angle, boundsCenter,
               inflight, outcome, pc, idx, mapPhase, attempts, mapInstance,
               navTimers, homeThen, last, tick, layerGroups, selectedBasemap,
               currentTileLayer, tilesOnMap>>

\* an input drawn for a summarizer, not yet handed to it
Drawn(g) == [fn |-> "none", arg |-> g, result |-> Returned(null)]

\* the inputs: no collection, a collection of one feature of any kind, a
\* collection of up to MaxFeatures features
InputDrawn ==
    \/ call = Drawn(NullGeoJson)
    \/ \E kind \in FeatureKinds, ring \in SampleRings :
          call = Drawn(FeatureCollection(<<Feature(kind, ring)>>))
    \/ \E n \in 0..MaxFeatures :
          \E kinds \in [1..n -> {"Polygon", "LineString", "Null"}],
             rings \in [1..n -> ShortRings] :
             call = Drawn(FeatureCollection(
                             [i \in 1..n |-> Feature(kinds[i], rings[i])]))

callBoundaryLength ==
    /\ variant = "summary"
    /\ call.fn = "none"
    /\ call' = [fn |-> "calculateBoundaryLength", arg |-> call.arg,
                result |-> calculateBoundaryLength(call.arg)]
    /\ UNCHANGED storeVars

callMainAngle ==
    /\ variant = "summary"
    /\ call.fn = "none"
    /\ call' = [fn |-> "calculateMainAngle", arg |-> call.arg,
                result |-> calculateMainAngle(call.arg)]
    /\ UNCHANGED storeVars

\* the metres totalLength may hold when the rings are walked: steps of
\* 100 km, the quarters between them, and the neighbours of the roundings.
\* Decimal ties that a double does not hold exactly (1.05, 1.15, ...) are
\* left out: toFixed rounds them by their binary expansion.
Totals ==
    {k * 100000 + d : k \in 0..MaxTotal, d \in {0, 25000, 75000}}
       \cup {499, 500, 1499, 1500, 999499, 999500, 999999, 1000001, 1250000}

\* a total the forEach of calculateBoundaryLength left, not yet formatted
Walked(total) == [fn |-> "walked", arg |-> total, result |-> Returned(null)]

TotalDrawn == \E total \in Totals : call = Walked(total)

\* the last three lines of calculateBoundaryLength
formatTotal ==
    /\ variant = "summary"
    /\ call.fn = "walked"
    /\ call' = [fn |-> "formatted", arg |-> call.arg,
                result |-> Returned(FormatLength(call.arg))]
    /\ UNCHANGED storeVars

SummarizerTurn == callBoundaryLength \/ callMainAngle

----------------------------------------------------------------------------
(* Specifications *)

ToggleTurn ==
    \/ \E layerId \in LayerIds \cup {UnknownId} : toggleLayerVisibility(layerId)
    \/ \E layer \in LayerIds, result \in LoaderResults : toggleLoaded(layer, result)
    \/ \E layer \in LayerIds : toggleFailed(layer)

\* application start: the run of loadCityLayers that HomeView starts, the
\* creation of the map, the navigation to the first city
HomeTurn ==
    \/ HomeMounted
    \/ \E run \in Runs, layer \in LayerIds, g \in GeoSamples :
          cityLoaded(run, layer, g)
    \/ \E run \in Runs, layer \in LayerIds : cityFailed(run, layer)
    \/ \E cityId \in LayerIds : navigateRetry(cityId)
    \/ HomeThen
    \/ initMap
    \/ \E created \in BOOLEAN : tryCreateMap(created)

\* application start with the run of loadCityLayers that MapTab starts
CityTurn == HomeTurn \/ MapTabTimer

\* the city buttons
NavTurn == \E cityId \in LayerIds \cup {UnknownId} : navigateToCity(cityId)

Next ==
    \/ ToggleTurn
    \/ CityTurn
    \/ NavTurn
    \/ onMounted
    \/ \E created \in BOOLEAN : tryInit(created)
    \/ \E value \in Basemaps : setSelectedBasemap(value)

\* every build, every operation
Spec == Init /\ [][Next]_vars

\* the build with toggleLayerVisibility
InitToggle == Init /\ variant = "toggle"
SpecToggle == InitToggle /\ [][ToggleTurn]_vars

\* the builds with loadCityLayers, from application start, no button pressed
InitCity == Init /\ CityBuild
SpecCity == InitCity /\ [][CityTurn]_vars

\* every caller of a loader: the three builds, no button pressed
SpecLoad == Init /\ [][ToggleTurn \/ CityTurn]_vars

\* the city builds with the city buttons and HomeView's run of loadCityLayers
SpecNav == InitCity /\ [][HomeTurn \/ NavTurn]_vars

\* the promise of a loader call settles, one way or the other
ToggleSettles(layer) ==
    \/ \E result \in LoaderResults : toggleLoaded(layer, result)
    \/ toggleFailed(layer)

CitySettles(run, layer) ==
    \/ \E g \in GeoSamples : cityLoaded(run, layer, g)
    \/ cityFailed(run, layer)

\* every loader promise eventually settles
LoadersSettle ==
    /\ \A layer \in LayerIds : WF_vars(ToggleSettles(layer))
    /\ \A run \in Runs, layer \in LayerIds : WF_vars(CitySettles(run, layer))

\* the turns of the city builds that start or continue a run of
\* loadCityLayers
LoadTurn ==
    \/ HomeMounted
    \/ MapTabTimer
    \/ \E run \in Runs, layer \in LayerIds : CitySettles(run, layer)
    \/ initMap
    \/ \E created \in BOOLEAN : tryCreateMap(created)

\* every load, with loaders that settle
SpecLoadFair == Init /\ [][ToggleTurn \/ LoadTurn]_vars /\ LoadersSettle

\* the summarizers on inputs of every shape
InitSummary == InitStore /\ variant = "summary" /\ InputDrawn
SpecSummarizer == InitSummary /\ [][SummarizerTurn]_vars

\* the label of calculateBoundaryLength on every total
InitFormat == InitStore /\ variant = "summary" /\ TotalDrawn
SpecFormat == InitFormat /\ [][formatTotal]_vars

\* the map component of the toggle build from its mount on
MapViewTurn == onMounted \/ \E created \in BOOLEAN : tryInit(created)

\* a city file that Leaflet draws and one that it rejects
MapSamples == {gPolygon, gUntyped}

\* the map component of every build from its mount on, beside HomeView's run
\* of loadCityLayers and the run the map component starts itself
MapTurn ==
    \/ HomeMounted
    \/ \E run \in Runs, layer \in LayerIds, g \in MapSamples :
          cityLoaded(run, layer, g)
    \/ initMap
    \/ \E created \in BOOLEAN : tryCreateMap(created)
    \/ MapTabTimer
    \/ MapViewTurn

\* the basemap buttons beside the creation of the map
BasemapTurn ==
    \/ HomeMounted
    \/ initMap
    \/ \E created \in BOOLEAN : tryCreateMap(created)
    \/ MapViewTurn
    \/ \E value \in Basemaps : setSelectedBasemap(value)

SpecBasemap == Init /\ [][BasemapTurn]_vars

SpecMap == Init /\ [][MapTurn]_vars

\* the toggle build with its map: createMap succeeds when it is called, a
\* failed attempt would only put off the moment the map is ready, which the
\* toggles before the first tryInit cover
SpecSync == InitToggle /\ [][ToggleTurn \/ onMounted \/ tryInit(TRUE)]_vars

----------------------------------------------------------------------------
(* Properties *)

\* this step calls the loader of layer l for the caller
Invokes(caller, l) == inflight'[caller][l] > inflight[caller][l]

\* loader promises of layer l not yet settled, over all callers
TotalInFlight(l) ==
    inflight["toggle"][l] + inflight["home"][l] + inflight["maptab"][l]

\* loader promises of one caller not yet settled, over all layers
PendingOf(caller) == SumSeq([l \in LayerIds |-> inflight[caller][l]])

\* this step is a toggleLayerVisibility(l) call
Toggles(l) == last'.op = "toggle" /\ last'.id = l /\ tick' # tick

IsLoadedData(l) == ~IsNullGeoJson(geoJsonData[l])

ToggleDataUnchanged(l) ==
    /\ geoJsonData'[l] = geoJsonData[l]
    /\ tableData'[l] = tableData[l]
    /\ summaryData'[l] = summaryData[l]
    /\ legendData'[l] = legendData[l]
    /\ isLoaded'[l] = isLoaded[l]

\* C1: toggleLayerVisibility never calls the loader of a layer that is
\* loading or loaded, whatever calls came before; while a load is awaited,
\* further toggles add no second loader call.
C1_NoDoubleLoad ==
    [][\A l \in LayerIds :
         Invokes("toggle", l) =>
            /\ ~isLoading[l]
            /\ ~isLoaded[l]
            /\ inflight["toggle"][l] = 0
            /\ inflight'["toggle"][l] = 1]_vars

\* a layer toggled off and on again while its first load is still awaited:
\* one loader call in flight
C1_Witness ==
    \E l \in LayerIds :
       /\ isLoading[l]
       /\ visible[l]
       /\ inflight["toggle"][l] = 1
       /\ last = Turn("toggle", l, "resolved", NullPoint)

\* C2: at most one loader call per layer is in flight at any time, over
\* every entry point, also when loadCityLayers is started a second time
\* before the first run has finished.
C2_OneInFlightPerLayer == \A l \in LayerIds : TotalInFlight(l) <= 1

\* C3: when the loader rejects, the layer is left not visible, not loading,
\* not loaded and without data, and the promise of the call resolves.
C3_FailedShape ==
    last.op = "toggleFailed" =>
       /\ ~visible[last.id]
       /\ ~isLoading[last.id]
       /\ ~isLoaded[last.id]
       /\ geoJsonData[last.id] = NullGeoJson
       /\ summaryData[last.id] = null
       /\ tableData[last.id] = null
       /\ last.outcome = "resolved"

\* a load has just failed, the user having switched the layer off and on
\* again in between or not
C3_Witness ==
    /\ last.op = "toggleFailed"
    /\ outcome["toggle"][last.id] = "rejected"
    /\ inflight["toggle"][last.id] = 0

\* C4: in a finished loadCityLayers run in which the loader of layer a was
\* rejected and the loader of a later layer b resolved, b holds its data and
\* its length and angle, and a holds no data.
C4_PartialFailureIsolation ==
    \A run \in Runs, a \in LayerIds, b \in LayerIds :
       (/\ a < b
        /\ pc[run] = "done"
        /\ outcome[run][a] = "rejected"
        /\ outcome[run][b] = "resolved")
       => /\ IsLoadedData(b)
          /\ variant = "summary" => (length[b] # null /\ angle[b] # null)
          /\ ~IsLoadedData(a)

\* C5: a loadCityLayers run has at most one loader call in flight; it calls
\* the loader of a layer only if the layer holds no data, and only after
\* every earlier layer was either passed over because it held data or had
\* its loader called by this run and settled.
C5_SequentialInOrder ==
    [][\A run \in Runs :
         /\ SumSeq([l \in LayerIds |-> inflight'[run][l]]) <= 1
         /\ \A l \in LayerIds :
               Invokes(run, l) =>
                  /\ ~IsLoadedData(l)
                  /\ \A i \in 1..(l - 1) :
                        \/ outcome'[run][i] \in {"resolved", "rejected"}
                        \/ /\ outcome'[run][i] = "none"
                           /\ ~IsNullGeoJson(geoJsonData'[i])]_vars

\* a run awaits the loader of the second layer after the loader of the
\* first has settled
C5_Witness ==
    \E run \in Runs :
       /\ pc[run] = "await"
       /\ idx[run] = 2
       /\ outcome[run][1] \in {"resolved", "rejected"}
       /\ inflight[run][2] = 1
       /\ PendingOf(run) = 1

NavigationOps == {"navigateToCity", "navigateRetry", "HomeThen"}

C8_LoadsExactlyWhen ==
    [][\A l \in LayerIds :
         Toggles(l) =>
            LET loads == /\ visible'[l]
                         /\ ~isLoaded[l]
                         /\ ~isLoading[l]
                         /\ flag[l] = "none"
            IN  /\ visible'[l] = ~visible[l]
                /\ Invokes("toggle", l) <=> loads
                /\ ~loads =>
                      /\ inflight' = inflight
                      /\ isLoading' = isLoading
                      /\ ToggleDataUnchanged(l)]_vars

\* a flagged layer has been switched on: visible, and no loader called
C8_Witness ==
    \E l \in LayerIds :
       /\ flag[l] # "none"
       /\ visible[l]
       /\ ~isLoading[l]
       /\ ~isLoaded[l]
       /\ last = Turn("toggle", l, "resolved", NullPoint)

\* C9: the loader is called in toggleLayerVisibility calls only, and the
\* first call on a layer whose load failed makes the layer visible and calls
\* its loader again.
C9_RetryOnlyOnToggle ==
    [][\A l \in LayerIds :
         /\ Invokes("toggle", l) => Toggles(l)
         /\ (Toggles(l) /\ outcome["toggle"][l] = "rejected") =>
               /\ visible'[l]
               /\ isLoading'[l]
               /\ Invokes("toggle", l)]_vars

\* a layer whose load failed has been toggled again and is loading anew
C9_Witness ==
    \E l \in LayerIds :
       /\ outcome["toggle"][l] = "retrying"
       /\ visible[l]
       /\ isLoading[l]
       /\ last = Turn("toggle", l, "pending", NullPoint)

\* C10: a toggleLayerVisibility call that hides a layer leaves its data and
\* isLoaded alone and calls no loader; the call that shows a loaded layer
\* again leaves the data alone and calls no loader either.
C10_HideKeepsData ==
    [][\A l \in LayerIds :
         /\ (Toggles(l) /\ visible[l]) =>
               /\ ~visible'[l]
               /\ ToggleDataUnchanged(l)
               /\ inflight' = inflight
         /\ (Toggles(l) /\ ~visible[l] /\ isLoaded[l]) =>
               /\ visible'[l]
               /\ ToggleDataUnchanged(l)
               /\ inflight' = inflight]_vars

\* a loaded layer is shown again from its cached data
C10_Witness ==
    \E l \in LayerIds :
       /\ isLoaded[l]
       /\ visible[l]
       /\ IsLoadedData(l)
       /\ outcome["toggle"][l] = "resolved"
       /\ inflight["toggle"][l] = 0
       /\ last = Turn("toggle", l, "resolved", NullPoint)

ToggleFields == <<visible, isLoading, isLoaded, geoJsonData, tableData,
                  summaryData, legendData>>

\* C11: a toggleLayerVisibility call with an id that no layer carries
\* changes no field of any layer, calls no loader, and returns normally.
C11_UnknownIdIgnored ==
    [][(last'.op = "toggle" /\ last'.id \notin LayerIds) =>
          /\ ToggleFields' = ToggleFields
          /\ inflight' = inflight
          /\ last'.outcome = "resolved"]_vars

\* the call came while a layer was loading and another was not
C11_Witness ==
    /\ last = Turn("toggle", UnknownId, "resolved", NullPoint)
    /\ \E l \in LayerIds : isLoading[l] /\ visible[l]
    /\ \E l \in LayerIds : ~visible[l]

\* no loader call is pending and no loadCityLayers run is under way
AllSettled ==
    /\ \A caller \in Callers, l \in LayerIds : inflight[caller][l] = 0
    /\ \A run \in Runs : pc[run] # "await"

\* C12: once every load attempt of the build with length and angle has
\* settled, a layer either holds geoJsonData, length and angle, or holds
\* none of geoJsonData, length, angle and boundsCenter.
C12_SettledShapes ==
    (variant = "summary" /\ AllSettled) =>
       \A l \in LayerIds :
          \/ /\ IsLoadedData(l)
             /\ length[l] # null
             /\ angle[l] # null
          \/ /\ ~IsLoadedData(l)
             /\ length[l] = null
             /\ angle[l] = null
             /\ boundsCenter[l] = NullPoint

\* C13: a layer that has a boundsCenter holds geoJsonData with at least one
\* feature, and the boundsCenter is the centre of the bounds of that
\* geoJsonData, after any number of loadCityLayers runs.
C13_BoundsCenterOfData ==
    \A l \in LayerIds :
       boundsCenter[l] # NullPoint =>
          /\ IsLoadedData(l)
          /\ Len(geoJsonData[l].features) > 0
          /\ ~getBoundsCenter(geoJsonData[l]).threw
          /\ boundsCenter[l] = getBoundsCenter(geoJsonData[l]).value

\* what the store holds: the layers, the map instance, the retry timers
StoreState == <<toggleVars, geoJsonData, cityVars, mapInstance, navTimers>>

\* a layer without any of the three sources of a centre
NoSource(l) ==
    /\ boundsCenter[l] = NullPoint
    /\ ~(IsLoadedData(l) /\ Len(geoJsonData[l].features) > 0)
    /\ center[l] = NullPoint

\* C14: a navigation with an id that no layer carries, or to a layer that
\* has no boundsCenter, no geoJsonData with features and no static centre,
\* does not reach setView and leaves the store as it was.
C14_NothingToNavigateTo ==
    [][(/\ last'.op \in NavigationOps
        /\ \/ last'.id \notin LayerIds
           \/ last'.id \in LayerIds /\ mapInstance /\ NoSource(last'.id))
       => /\ last'.outcome \in {"notFound", "noCenter"}
          /\ last'.id \notin LayerIds => last'.outcome = "notFound"
          /\ last'.target = NullPoint
          /\ StoreState' = StoreState]_vars

\* an unknown id was given while the map was there and a city was loaded
C14_Witness ==
    /\ last = Turn("navigateToCity", UnknownId, "notFound", NullPoint)
    /\ mapInstance
    /\ \E l \in LayerIds : boundsCenter[l] # NullPoint

LayerRecords == <<geoJsonData, length, angle, boundsCenter>>

LoadOps == {"loadCityLayers", "cityLoaded", "cityFailed"}

\* C15: a navigation leaves geoJsonData, length, angle and boundsCenter of
\* every layer as they were, the centre it computes from the geoJsonData
\* included; these fields change in turns of loadCityLayers only.
C15_NavigationWritesNothing ==
    [][/\ last'.op \in NavigationOps => LayerRecords' = LayerRecords
       /\ LayerRecords' # LayerRecords => last'.op \in LoadOps]_vars

\* a city button was pressed for a loaded layer without boundsCenter: the
\* centre was computed from the geoJsonData and the layer still has none
C15_Witness ==
    /\ last.op = "navigateToCity"
    /\ last.outcome = "setView"
    /\ boundsCenter[last.id] = NullPoint
    /\ IsLoadedData(last.id)
    /\ ~getBoundsCenter(geoJsonData[last.id]).threw
    /\ last.target = getBoundsCenter(geoJsonData[last.id]).value

\* C16: a navigation to a configured city with the map instance set reaches
\* setView, whatever the load state of the layer.
C16_NeverHardFails ==
    (/\ last.op \in NavigationOps
     /\ last.id \in LayerIds
     /\ last.outcome \notin {"deferred", "dropped"})
    => last.outcome = "setView"

\* every layer of the group was passed over holding data, or had its loader
\* called by the run and settled
AllAttempted(run) ==
    \A l \in LayerIds :
       \/ outcome[run][l] \in {"resolved", "rejected"}
       \/ outcome[run][l] = "none" /\ IsLoadedData(l)

\* C17: if every loader promise settles, a layer that is loading is
\* eventually not loading, and a loadCityLayers run that awaits a loader
\* eventually ends with every layer of the group attempted.
C17_LoadsComplete ==
    /\ \A l \in LayerIds : isLoading[l] ~> ~isLoading[l]
    /\ \A run \in Runs : (pc[run] = "await") ~> (pc[run] = "done" /\ AllAttempted(run))

\* a run has ended in which one loader was rejected and a later one resolved
C17_Witness ==
    \E run \in Runs :
       /\ pc[run] = "done"
       /\ AllAttempted(run)
       /\ outcome[run][1] = "rejected"
       /\ outcome[run][2] = "resolved"

ToggleOps == {"toggle", "toggleLoaded", "toggleFailed"}

\* the fields of layer m are left alone
LayerUnchanged(m) ==
    /\ visible'[m] = visible[m]
    /\ isLoading'[m] = isLoading[m]
    /\ isLoaded'[m] = isLoaded[m]
    /\ geoJsonData'[m] = geoJsonData[m]
    /\ tableData'[m] = tableData[m]
    /\ summaryData'[m] = summaryData[m]
    /\ legendData'[m] = legendData[m]
    /\ inflight'["toggle"][m] = inflight["toggle"][m]

\* C18: a toggleLayerVisibility call and the settlement of the load it
\* started, resolved or rejected, change fields of the layer they are about
\* and of no other layer, also with loads of several layers in flight.
C18_PerLayerIsolation ==
    [][last'.op \in ToggleOps =>
          \A m \in LayerIds : m # last'.id => LayerUnchanged(m)]_vars

\* the load of one layer has failed while another layer is still loading
C18_Witness ==
    /\ last.op = "toggleFailed"
    /\ ~visible[last.id]
    /\ \E m \in LayerIds :
          /\ m # last.id
          /\ visible[m]
          /\ isLoading[m]
          /\ inflight["toggle"][m] = 1

\* calculateBoundaryLength was called on a collection of one feature of the
\* geometry type
LengthOfOne(type) ==
    /\ call.fn = "calculateBoundaryLength"
    /\ call.arg.type = "FeatureCollection"
    /\ Len(call.arg.features) = 1
    /\ call.arg.features[1].geometry.type = type

OneDegree == << <<0, 0>>, <<0, 1>> >>

Degenerate(g) ==
    /\ g.type = "FeatureCollection"
    /\ \A i \in 1..Len(g.features) :
          /\ g.features[i].geometry.type # "null"
          /\ g.features[i].geometry.coordinates = <<>>

KiloLabel(tenths) ==
    ToString(tenths \div 10) \o "." \o ToString(tenths % 10) \o "k km"
PlainLabel(n) == ToString(n) \o " km"
KiloLabels == {KiloLabel(t) : t \in 0..(MaxTotal + 2)}
PlainLabels == {PlainLabel(n) : n \in 0..1000}

\* C21: with km = totalMeters / 1000 the label has the "Xk km" form, km/1000
\* to the nearest tenth, exactly when km > 1000, and the "N km" form, km to
\* the nearest integer, otherwise; 1000 km itself gives "1000 km" and a total
\* of 1,500,000 m gives "1.5k km".
C21_LabelForm ==
    call.fn = "formatted" =>
       LET total == call.arg
           label == call.result.value
       IN  /\ ~call.result.threw
           /\ label \in KiloLabels <=> total > 1000000
           /\ label \in PlainLabels <=> total <= 1000000
           /\ total > 1000000 =>
                 \E t \in 0..(MaxTotal + 2) :
                    /\ label = KiloLabel(t)
                    /\ Abs(t * 100000 - total) <= 50000
           /\ total <= 1000000 =>
                 \E n \in 0..1000 :
                    /\ label = PlainLabel(n)
                    /\ Abs(n * 1000 - total) <= 500
           /\ total = 1000000 => label = "1000 km"
           /\ total = 1500000 => label = "1.5k km"

\* the label of 1,500,000 m
C21_Witness ==
    /\ call.fn = "formatted"
    /\ call.arg = 1500000
    /\ call.result = Returned("1.5k km")

\* calculateMainAngle was called on a collection
AngleCalled ==
    call.fn = "calculateMainAngle" /\ call.arg.type = "FeatureCollection"

\* the labels Math.round of an angle of the first quadrant gives
AngleLabels == {ToString(a) \o "deg" : a \in 0..90}

Orders(n) == {p \in [1..n -> 1..n] : \A i, j \in 1..n : p[i] = p[j] => i = j}
Shuffles(s) == {[i \in 1..Len(s) |-> s[p[i]]] : p \in Orders(Len(s))}

\* the sequences that take their k-th member from the k-th set of sets
RECURSIVE Products(_)
Products(sets) ==
    IF sets = <<>> THEN {<<>>}
    ELSE {<<x>> \o rest : x \in Head(sets), rest \in Products(Tail(sets))}

\* the rings of a polygon, each with its vertices in any order
ShuffledRings(rings) ==
    Products([k \in 1..Len(rings) |-> Shuffles(rings[k])])

\* a feature with the vertices of every ring in any order
ShuffledFeature(feature) ==
    IF feature.geometry.type = "Polygon"
    THEN {Polygon(rs) : rs \in ShuffledRings(feature.geometry.coordinates)}
    ELSE IF feature.geometry.type = "MultiPolygon"
         THEN LET polygons == feature.geometry.coordinates
              IN  {MultiPolygon(ps) :
                     ps \in Products([k \in 1..Len(polygons) |->
                                        ShuffledRings(polygons[k])])}
         ELSE IF feature.geometry.type = "null" THEN {feature}
              ELSE {[geometry |-> [type |-> feature.geometry.type,
                                   coordinates |-> c]] :
                      c \in Shuffles(feature.geometry.coordinates)}

\* the collections that hold the features of g in any order, each with the
\* vertices of its rings in any order
Reordered(g) ==
    LET n == Len(g.features)
    IN  UNION {{FeatureCollection(hs) : hs \in Shuffles(fs)} :
                 fs \in Products([k \in 1..n |->
                                    ShuffledFeature(g.features[k])])}

\* C23: calculateMainAngle answers the same for a collection and for the
\* collection with the vertices of its rings and its features in any other
\* order.
C23_OrderInvariant ==
    AngleCalled =>
       \A h \in Reordered(call.arg) : calculateMainAngle(h) = call.result

\* the call on a ring of three different vertices, which has six orders and
\* an angle
C23_Witness ==
    /\ AngleCalled
    /\ Len(call.arg.features) = 1
    /\ call.arg.features[1].geometry.type = "Polygon"
    /\ call.arg.features[1].geometry.coordinates =
          << << <<0, 0>>, <<4, 4>>, <<0, 1>> >> >>
    /\ Cardinality(Reordered(call.arg)) = 6
    /\ call.result = Returned("45deg")

\* C24: calculateBoundaryLength and calculateMainAngle raise no exception,
\* whatever they are given, a feature without geometry included, and a call
\* leaves the store as it was.
C24_SummarizersNeverThrow ==
    /\ call.fn \in {"calculateBoundaryLength", "calculateMainAngle"} =>
          ~call.result.threw
    /\ call.fn \in {"none", "calculateBoundaryLength", "calculateMainAngle"} =>
          \A l \in LayerIds :
             /\ geoJsonData[l] = NullGeoJson
             /\ length[l] = null
             /\ angle[l] = null
             /\ boundsCenter[l] = NullPoint

\* C26: between two turns no layer has isLoading and isLoaded both true, and
\* isLoaded, once true, stays true.
C26_LoadingXorLoaded ==
    /\ [](\A l \in LayerIds : ~(isLoading[l] /\ isLoaded[l]))
    /\ [][\A l \in LayerIds : isLoaded[l] => isLoaded'[l]]_vars

\* a layer loaded and since hidden, while another layer is loading
C26_Witness ==
    \E l, m \in LayerIds :
       /\ isLoaded[l] /\ ~isLoading[l] /\ ~visible[l]
       /\ isLoading[m] /\ ~isLoaded[m]

\* the retry timers of the cities other than id are as they were, and id has
\* one more (by = 1) or one fewer (by = -1)
TimersChange(id, by) ==
    navTimers' = [navTimers EXCEPT ![id] = navTimers[id] + by]

\* C27: navigateToCity for a known city without a map instance navigates
\* nowhere and sets one retry timer; when the timer fires with the map
\* instance set the navigation is carried out, setView is called, and
\* otherwise the request is dropped and no further timer is set.
C27_RetryOnce ==
    [][/\ (last'.op \in {"navigateToCity", "HomeThen"}
           /\ last'.id \in LayerIds /\ ~mapInstance)
          => /\ last'.outcome = "deferred"
             /\ last'.target = NullPoint
             /\ TimersChange(last'.id, 1)
       /\ (last'.op = "navigateRetry" /\ mapInstance)
          => /\ last'.outcome = "setView"
             /\ TimersChange(last'.id, -1)
       /\ (last'.op = "navigateRetry" /\ ~mapInstance)
          => /\ last'.outcome = "dropped"
             /\ last'.target = NullPoint
             /\ TimersChange(last'.id, -1)
       /\ navTimers' # navTimers
          => last'.op \in {"navigateToCity", "HomeThen", "navigateRetry"}]_vars

\* C28: HomeView calls navigateToCity for the first city only when the run
\* of loadCityLayers it started has ended, every loader the run called has
\* settled and every layer was attempted; the call is not held back by loads
\* that failed.
C28_NavigationAfterLoading ==
    /\ [][last'.op = "HomeThen" =>
            /\ pc["home"] = "done"
            /\ \A l \in LayerIds : inflight["home"][l] = 0
            /\ AllAttempted("home")
            /\ last'.id = 1]_vars
    /\ []((pc["home"] = "done" /\ homeThen = "none"
            /\ (mapInstance \/ TimersWaiting < MaxTimers))
           => ENABLED HomeThen)

\* the call was made after every load of the run had failed
C28_Witness ==
    /\ last.op = "HomeThen"
    /\ homeThen = "ran"
    /\ \A l \in LayerIds : outcome["home"][l] = "rejected"

\* the layers syncLayers looks for: visible and holding data
VisibleWithData == {l \in LayerIds : visible[l] /\ ~IsNullGeoJson(geoJsonData[l])}

\* C25 as stated: with the map ready, the layers on the map are the layers
\* that are visible and hold data.
C25_MapShowsVisibleData == mapInstance => layerGroups = VisibleWithData

\* C25, amended: with the map ready, the layers on the map are the layers
\* that are visible, hold data and whose data createFeatureLayer turned into
\* a layer; so a layer is not on the map while its first load is in flight
\* nor while it is hidden.
C25_MapShowsDrawnData ==
    mapInstance =>
       /\ layerGroups =
             {l \in VisibleWithData : Drawable(geoJsonData[l])}
       /\ \A l \in LayerIds :
             (~visible[l] \/ (isLoading[l] /\ ~isLoaded[l])) => l \notin layerGroups

\* the map shows a layer, and beside it a visible layer holds data that
\* Leaflet rejected and a layer hidden before its load ended holds data
C25_Witness ==
    /\ mapInstance
    /\ \E l, m \in LayerIds :
          /\ l \in layerGroups
          /\ visible[m] /\ isLoaded[m] /\ ~Drawable(geoJsonData[m])
          /\ m \notin layerGroups
\* a step in which createMap succeeded
MapCreated == ~mapInstance /\ mapInstance'

\* attempts counts the calls of createMap that failed: none is made beyond
\* maxAttempts, and the map is created by one of the first maxAttempts calls
C29_AttemptsBounded ==
    /\ [](attempts <= maxAttempts)
    /\ [][MapCreated => mapPhase = "trying" /\ attempts < maxAttempts]_vars

\* initMap stops at the first success and after the last failure
C29_StopsForGood ==
    [][(mapPhase = "ready" \/ mapPhase = "failed") =>
          (mapPhase' = mapPhase /\ mapInstance' = mapInstance
              /\ attempts' = attempts)]_vars

\* setBasemap and the timer of loadCityLayers happen in a step that created
\* the map and in no other, the timer is never set a second time
C29_OnlyAfterSuccess ==
    [][(tilesOnMap' # tilesOnMap => MapCreated)
          /\ (pc'["maptab"] = "timer" =>
                 (pc["maptab"] = "timer"
                     \/ (pc["maptab"] = "idle" /\ MapCreated)))]_vars

\* when every attempt failed there is no map, no tile layer, no layer and
\* no timer
C29_NeverAfterFailure ==
    [](mapPhase = "failed" =>
          /\ ~mapInstance
          /\ attempts = maxAttempts
          /\ tilesOnMap = 0
          /\ layerGroups = {}
          /\ pc["maptab"] = "idle")

\* in the builds whose initMap sets the timer, the step that created the map
\* set it
C29_TimerSet == [][CityBuild /\ MapCreated => pc'["maptab"] = "timer"]_vars

\* C29: one initMap calls createMap at most maxAttempts (20) times and stops
\* at the first success; setBasemap, syncLayers and the timer of
\* loadCityLayers happen once, in the step of the successful createMap, and
\* never when all attempts fail
C29_InitMapOnce ==
    /\ C29_AttemptsBounded
    /\ C29_StopsForGood
    /\ C29_OnlyAfterSuccess
    /\ C29_NeverAfterFailure
    /\ C29_TimerSet
\* the selected basemap leads setBasemap to attach a tile layer
Tiled(b) == b.url /\ ~(variant = "recheck" /\ b.theme)

\* C30: after any sequence of basemap changes at most one tile layer is on
\* the map, the one currentTileLayer refers to; none when the selected
\* basemap has no URL or, in the city builds, is a colour theme
C30_OneTileLayer ==
    /\ tilesOnMap <= 1
    /\ tilesOnMap = 1 <=> currentTileLayer = "attached"
    /\ mapInstance /\ ~selectedBasemap.url => tilesOnMap = 0
    /\ mapInstance /\ CityBuild /\ selectedBasemap.theme => tilesOnMap = 0
    /\ mapInstance /\ Tiled(selectedBasemap) => tilesOnMap = 1

\* a change of basemap took a tile layer off the map and put another on it
C30_Witness ==
    /\ last.op = "setSelectedBasemap"
    /\ last.outcome = "removed"
    /\ Tiled(selectedBasemap)
    /\ tilesOnMap = 1

====
